---------------------------- MODULE Spec2Model ----------------------------
(***************************************************************************)
(* A model of lrm_paper_analyzer.py: the arXiv reference resolver, the     *)
(* MinerU extraction orchestrator, the title heuristics, the image         *)
(* post-processor and the output stager.                                   *)
(*                                                                         *)
(* Text is modelled as a sequence of tokens.  Every token stands for a     *)
(* fixed piece of text of a known width in characters (Width): single      *)
(* characters, blocks of the lowercase letter x, and the five stoplist     *)
(* words.  All string functions of the program are computed on that        *)
(* representation character-exactly.                                       *)
(***************************************************************************)
EXTENDS Integers, Sequences, FiniteSets, TLC

VARIABLES
    \* ---- extract_title_from_markdown, run on its own
    content,        \* the transcript: a sequence of lines
    title,          \* what extract_title_from_markdown returned
    tpc,            \* "idle" | "ready" | "done"
    \* ---- enhance_image_quality, run on its own
    img,            \* the source image and the environment of one call
    enh,            \* the outcome of the call
    epc,            \* "idle" | "ready" | "done"
    \* ---- process_arxiv_paper, run after run on one output directory
    pc,             \* where the current run stands
    run,            \* the number of runs started
    url,            \* the reference the current run was given
    safe_paper_id,  \* sanitize_filename(paper_id) of the current run
    outdir,         \* whether <output_dir> exists
    tmp_exists,     \* whether <output_dir>/.tmp exists
    tmp_pdfs,       \* the PDF files in .tmp, by base name
    mo_images,      \* the directories named images under .tmp/mineru_output
    mo_mds,         \* the .md files under .tmp/mineru_output
    tmp_synth,      \* whether .tmp/images exists
    images_dir,     \* the images directory the run selected
    paper_title,    \* the bundle folder name the run settled on
    copied_count,   \* what copy_images_to_output returned
    bundles,        \* the folders under <output_dir>, each with the files the
                    \* current run has put there (what earlier runs left in a
                    \* folder is not listed)
    result,         \* what process_arxiv_paper returned: "none" while running
    \* ---- history of the current run, read by the properties only
    events,         \* what happened to the run
    tool_md,        \* the transcript the tool wrote in this run, if any
    md_run,         \* the run that wrote the transcript the title came from
    bundles0        \* bundles when the run started

tvars == <<content, title, tpc>>
evars == <<img, enh, epc>>
pvars == <<pc, run, url, safe_paper_id, outdir, tmp_exists, tmp_pdfs,
           mo_images, mo_mds, tmp_synth, images_dir, paper_title, copied_count,
           bundles, result, events, tool_md, md_run, bundles0>>

-----------------------------------------------------------------------------
(* Text *)

\* The width in characters of the text a token stands for.
Width(t) ==
    CASE t = "x9" -> 9
      [] t = "x19" -> 19
      [] t = "x180" -> 180
      [] t = "x1980" -> 1980
      [] t = "abstract" -> 8
      [] t = "Introduction" -> 12
      [] t = "content" -> 7
      [] t = "table" -> 5
      [] t = "figure" -> 6
      [] t = "pdf" -> 3
      [] OTHER -> 1

RECURSIVE StrLen(_)
\* len(s)
StrLen(s) == IF s = <<>> THEN 0 ELSE Width(Head(s)) + StrLen(Tail(s))

\* str.lower(), token by token
Lower(t) ==
    CASE t = "T" -> "a"
      [] t = "Introduction" -> "introduction"
      [] OTHER -> t

\* c.isupper() for some character of the token
IsUpper(t) == t \in {"T", "Introduction"}

\* skip in s.lower()
Contains(s, skip) == \E i \in 1..Len(s) : Lower(s[i]) = skip

RECURSIVE LStrip(_, _)
LStrip(s, chars) ==
    IF s # <<>> /\ Head(s) \in chars THEN LStrip(Tail(s), chars) ELSE s

RECURSIVE RStrip(_, _)
RStrip(s, chars) ==
    IF s # <<>> /\ s[Len(s)] \in chars
    THEN RStrip(SubSeq(s, 1, Len(s) - 1), chars)
    ELSE s

\* str.strip(): whitespace off both ends
Strip(s) == RStrip(LStrip(s, {" "}), {" "})

\* The characters the pattern [\w\-\.] of sanitize_filename matches.
SafeToken(t) == t \notin {" ", "#", "*", ":", "!"}

RECURSIVE SubUnsafe(_)
\* re.sub(r"[^\w\-\.]+", "_", name): each maximal run of other characters
\* becomes one underscore
SubUnsafe(s) ==
    IF s = <<>> THEN <<>>
    ELSE IF SafeToken(Head(s)) THEN <<Head(s)>> \o SubUnsafe(Tail(s))
    ELSE IF Len(s) > 1 /\ ~SafeToken(s[2]) THEN SubUnsafe(Tail(s))
    ELSE <<"_">> \o SubUnsafe(Tail(s))

sanitize_filename(name) ==
    RStrip(LStrip(SubUnsafe(name), {".", "_"}), {".", "_"})

-----------------------------------------------------------------------------
(* extract_title_from_markdown *)

HeadingScanLines == 50
PlainScanLines == 20
HeadingMinLen == 10
PlainMinLen == 20
TitleMaxLen == 200
ColonWindow == 20
MaxPeriods == 3
BoldScanChars == 2000

HeadingStoplist == {"abstract", "introduction", "content", "table", "figure"}
BoldStoplist == {"abstract", "figure", "table"}

\* lines[:n]
FirstLines(lines, n) == SubSeq(lines, 1, IF Len(lines) < n THEN Len(lines) ELSE n)

\* One iteration of the heading loop: the title the line yields, or <<>>.
HeadingTitle(rawline) ==
    LET line == Strip(rawline)
        t == IF Len(line) >= 2 THEN Strip(SubSeq(line, 3, Len(line))) ELSE <<>>
    IN IF /\ Len(line) >= 2 /\ line[1] = "#" /\ line[2] = " "
          /\ StrLen(line) > 2
          /\ ~\E skip \in HeadingStoplist : Contains(t, skip)
          /\ StrLen(t) > HeadingMinLen /\ StrLen(t) < TitleMaxLen
       THEN t ELSE <<>>

RECURSIVE FirstNonEmpty(_)
FirstNonEmpty(seq) ==
    IF seq = <<>> THEN <<>>
    ELSE IF Head(seq) # <<>> THEN Head(seq)
    ELSE FirstNonEmpty(Tail(seq))

\* Method 1: the first level-1 heading of the first 50 lines that qualifies
HeadingScan(lines) ==
    LET ls == FirstLines(lines, HeadingScanLines)
    IN FirstNonEmpty([i \in 1..Len(ls) |-> HeadingTitle(ls[i])])

RECURSIVE CountDots(_)
CountDots(s) ==
    IF s = <<>> THEN 0
    ELSE (IF Head(s) = "." THEN 1 ELSE 0) + CountDots(Tail(s))

\* ':' in line[:20]
ColonEarly(line) ==
    \E i \in 1..Len(line) :
        line[i] = ":" /\ StrLen(SubSeq(line, 1, i)) <= ColonWindow

PlainTitle(rawline) ==
    LET line == Strip(rawline)
    IN IF /\ line # <<>> /\ line[1] # "#" /\ line[1] # "*"
          /\ PlainMinLen < StrLen(line) /\ StrLen(line) < TitleMaxLen
          /\ \E i \in 1..Len(line) : IsUpper(line[i])
          /\ ~ColonEarly(line)
          /\ CountDots(line) < MaxPeriods
       THEN line ELSE <<>>

\* Method 2: the first plain line of the first 20 lines that looks like a title
PlainScan(lines) ==
    LET ls == FirstLines(lines, PlainScanLines)
    IN FirstNonEmpty([i \in 1..Len(ls) |-> PlainTitle(ls[i])])

RECURSIVE TakeChars(_, _)
\* The tokens of a line that lie wholly within its first n characters.
TakeChars(line, n) ==
    IF line = <<>> \/ Width(Head(line)) > n THEN <<>>
    ELSE <<Head(line)>> \o TakeChars(Tail(line), n - Width(Head(line)))

RECURSIVE Truncate(_, _)
\* content[:n], as lines (each line but the last is followed by one "\n")
Truncate(lines, n) ==
    IF lines = <<>> \/ n <= 0 THEN <<>>
    ELSE <<TakeChars(Head(lines), n)>>
         \o Truncate(Tail(lines), n - StrLen(Head(lines)) - 1)

IsStars(s, i) == i + 1 <= Len(s) /\ s[i] = "*" /\ s[i + 1] = "*"

RECURSIVE FindBold(_, _)
\* re.findall(r'\*\*(.*?)\*\*', line) from token i on: the inner texts of the
\* leftmost non-overlapping, shortest matches
FindBold(s, i) ==
    IF i + 3 > Len(s) THEN <<>>
    ELSE IF ~IsStars(s, i) THEN FindBold(s, i + 1)
    ELSE LET closers == {j \in (i + 2)..(Len(s) - 1) : IsStars(s, j)}
         IN IF closers = {} THEN <<>>
            ELSE LET j == CHOOSE k \in closers : \A m \in closers : k <= m
                 IN <<SubSeq(s, i + 2, j - 1)>> \o FindBold(s, j + 2)

RECURSIVE BoldMatches(_)
\* the matches of the whole text: '.' does not cross a line break
BoldMatches(lines) ==
    IF lines = <<>> THEN <<>>
    ELSE FindBold(Head(lines), 1) \o BoldMatches(Tail(lines))

\* A mutant of BoldOk: the heading scan's stoplist used for bold spans too.
BoldOk_HeadingStoplist(match) ==
    /\ PlainMinLen < StrLen(match) /\ StrLen(match) < TitleMaxLen
    /\ ~\E skip \in HeadingStoplist : Contains(match, skip)

\* The test of line 273
BoldOk(match) ==
    /\ PlainMinLen < StrLen(match) /\ StrLen(match) < TitleMaxLen
    /\ ~\E skip \in BoldStoplist : Contains(match, skip)

RECURSIVE FirstBoldOk(_)
FirstBoldOk(ms) ==
    IF ms = <<>> THEN <<>>
    ELSE IF BoldOk(Head(ms)) THEN Head(ms)
    ELSE FirstBoldOk(Tail(ms))

\* Method 3: the first bold span of the first 2000 characters that qualifies
BoldScan(lines) == FirstBoldOk(BoldMatches(Truncate(lines, BoldScanChars)))

\* The heuristic that decides: 1, 2, 3, or 0 when all three fail.
TitleMethod(lines) ==
    IF HeadingScan(lines) # <<>> THEN 1
    ELSE IF PlainScan(lines) # <<>> THEN 2
    ELSE IF BoldScan(lines) # <<>> THEN 3
    ELSE 0

extract_title_from_markdown(lines) ==
    CASE TitleMethod(lines) = 1 -> HeadingScan(lines)
      [] TitleMethod(lines) = 2 -> PlainScan(lines)
      [] TitleMethod(lines) = 3 -> BoldScan(lines)
      [] OTHER -> <<>>

-----------------------------------------------------------------------------
(* enhance_image_quality *)

UpscaleBelowPixels == 1000000
LanczosBudgetCv2 == 2000000
LanczosCapCv2 == 4
LanczosBudget == 1500000
LanczosCap == 3
SuperResolutionFactor == 2

\* The steps of one call that the environment can make fail.
EnhanceSteps ==
    {"import_pil", "open", "super_resolution", "resize", "sharpen", "smooth",
     "save", "copy"}

\* min(cap, int(sqrt(budget / original_size))): the largest k <= cap with
\* k * k <= budget / original_size
ScaleFactor(cap, budget, original_size) ==
    CHOOSE k \in 0..cap :
        /\ k * k * original_size <= budget
        /\ \A m \in 0..cap : m * m * original_size <= budget => m <= k

\* `import numpy as np` follows `import cv2` in the same try block: the name
\* np is bound only when cv2 was imported.
NumpyBound(has_cv2) == has_cv2

\* apply_cv2_super_resolution: the upscaled picture, or None on any exception
apply_cv2_super_resolution(pic, fail) ==
    IF "super_resolution" \in fail THEN [none |-> TRUE]
    ELSE [none |-> FALSE,
          w |-> pic.w * SuperResolutionFactor,
          h |-> pic.h * SuperResolutionFactor,
          ops |-> pic.ops \o <<"super_resolution">>]

\* apply_image_enhancement: sharpen, contrast, colour, smooth; on an exception
\* the picture as far as it got.  `failed` collects the steps that threw.
apply_image_enhancement(pic, fail) ==
    IF "sharpen" \in fail
    THEN [pic EXCEPT !.failed = @ \cup {"sharpen"}]
    ELSE IF "smooth" \in fail
    THEN [pic EXCEPT !.ops = @ \o <<"sharpen", "contrast", "color">>,
                     !.failed = @ \cup {"smooth"}]
    ELSE [pic EXCEPT !.ops = @ \o <<"sharpen", "contrast", "color", "smooth">>]

Raised(failed) == [raised |-> TRUE, w |-> 0, h |-> 0, ops |-> <<>>, failed |-> failed]

\* The LANCZOS branches (lines 319-321 and 325-327): np.sqrt needs the name np.
Lanczos(pic, has_cv2, fail, cap, budget) ==
    IF ~NumpyBound(has_cv2) THEN Raised(pic.failed \cup {"numpy_unbound"})
    ELSE IF "resize" \in fail THEN Raised(pic.failed \cup {"resize"})
    ELSE LET scale == ScaleFactor(cap, budget, pic.w * pic.h)
         IN [raised |-> FALSE, w |-> pic.w * scale, h |-> pic.h * scale,
             ops |-> pic.ops \o <<"lanczos">>, failed |-> pic.failed]

\* A mutant of Upsample: a failed super-resolution is raised instead of
\* falling back to the LANCZOS upscale.
Upsample_NoFallback(pic, has_cv2, fail) ==
    IF pic.w * pic.h < UpscaleBelowPixels
    THEN IF has_cv2
         THEN LET sr == apply_cv2_super_resolution(pic, fail)
              IN IF ~sr.none
                 THEN [raised |-> FALSE, w |-> sr.w, h |-> sr.h, ops |-> sr.ops,
                       failed |-> pic.failed]
                 ELSE Raised(pic.failed \cup {"super_resolution"})
         ELSE Lanczos(pic, has_cv2, fail, LanczosCap, LanczosBudget)
    ELSE [raised |-> FALSE, w |-> pic.w, h |-> pic.h, ops |-> pic.ops,
          failed |-> pic.failed]

\* The upscaling step (lines 309-328).
Upsample(pic, has_cv2, fail) ==
    IF pic.w * pic.h < UpscaleBelowPixels
    THEN IF has_cv2
         THEN LET sr == apply_cv2_super_resolution(pic, fail)
              IN IF ~sr.none
                 THEN [raised |-> FALSE, w |-> sr.w, h |-> sr.h, ops |-> sr.ops,
                       failed |-> pic.failed]
                 ELSE Lanczos([pic EXCEPT !.failed = @ \cup {"super_resolution"}],
                              has_cv2, fail, LanczosCapCv2, LanczosBudgetCv2)
         ELSE Lanczos(pic, has_cv2, fail, LanczosCap, LanczosBudget)
    ELSE [raised |-> FALSE, w |-> pic.w, h |-> pic.h, ops |-> pic.ops,
          failed |-> pic.failed]

\* The try block of enhance_image_quality (lines 290-338): the picture saved
\* as <base>_enhanced.png, or what was raised.
TryEnhance(w, h, has_cv2, fail) ==
    IF "import_pil" \in fail THEN Raised({"import_pil"})
    ELSE IF "open" \in fail THEN Raised({"open"})
    ELSE LET up == Upsample([w |-> w, h |-> h, ops |-> <<>>, failed |-> {}],
                            has_cv2, fail)
         IN IF up.raised THEN up
            ELSE LET pic == apply_image_enhancement(
                                [w |-> up.w, h |-> up.h, ops |-> up.ops,
                                 failed |-> up.failed], fail)
                 IN IF "save" \in fail THEN Raised(pic.failed \cup {"save"})
                    ELSE [raised |-> FALSE, w |-> pic.w, h |-> pic.h,
                          ops |-> pic.ops, failed |-> pic.failed]

\* enhance_image_quality(src_path, dst_path).  ret is "enhanced" (the path
\* <base>_enhanced.png was written and returned), "dst" (the handler of line
\* 340 copied the source to dst_path and returned it) or "raise" (that copy
\* failed as well).  raw says the file is the source, byte for byte.
enhance_image_quality(w, h, has_cv2, fail) ==
    LET t == TryEnhance(w, h, has_cv2, fail)
    IN IF ~t.raised
       THEN [ret |-> "enhanced", raw |-> FALSE, w |-> t.w, h |-> t.h,
             ops |-> t.ops, failed |-> t.failed]
       ELSE IF "copy" \in fail
       THEN [ret |-> "raise", raw |-> FALSE, w |-> 0, h |-> 0, ops |-> <<>>,
             failed |-> t.failed \cup {"copy"}]
       ELSE [ret |-> "dst", raw |-> TRUE, w |-> w, h |-> h, ops |-> <<>>,
             failed |-> t.failed]

\* The picture sizes and environments one call is tried on.
Dims == {353, 354, 408, 409, 612, 613, 999, 1000}
MaxFailures == 2
FailSets == {f \in SUBSET EnhanceSteps : Cardinality(f) <= MaxFailures}

EnhanceInit ==
    /\ img \in [w : Dims, h : Dims, has_cv2 : BOOLEAN, fail : FailSets]
    /\ enh = [ret |-> "none"]
    /\ epc = "ready"

EnhanceIdle ==
    /\ img = [w |-> 0, h |-> 0, has_cv2 |-> FALSE, fail |-> {}]
    /\ enh = [ret |-> "none"]
    /\ epc = "idle"

\* One call of enhance_image_quality.
Enhance ==
    /\ epc = "ready"
    /\ enh' = enhance_image_quality(img.w, img.h, img.has_cv2, img.fail)
    /\ epc' = "done"
    /\ UNCHANGED img

-----------------------------------------------------------------------------
(* extract_title_from_markdown, on its own *)

MaxLines == 2

Stars == <<"*", "*">>
Bodies ==
    { <<"T", "x19", "a">>,                  \* 21 characters, one capital
      <<"T", "x19">>,                       \* 20 characters
      <<"x19", "a", "a">>,                  \* 21 characters, no capital
      <<"T", "x19", "x180">>,               \* 200 characters
      <<"Introduction", " ", "x19">>,
      <<"T", " ", "content", " ", "x19">>,
      <<"abstract", " ", "T", "x19">> }
Lines ==
    {<<>>, <<"T", "x1980">>}
    \cup Bodies
    \cup {<<"#", " ">> \o b : b \in Bodies}
    \cup {Stars \o b \o Stars : b \in Bodies}
    \cup {<<"a", ":", " ">> \o Stars \o b \o Stars : b \in Bodies}
BlankRuns == {0, PlainScanLines, HeadingScanLines}
Transcripts ==
    {[i \in 1..n |-> <<>>] \o ls :
        n \in BlankRuns, ls \in UNION {[1..k -> Lines] : k \in 0..MaxLines}}

TitleInit ==
    /\ content \in Transcripts
    /\ title = <<>>
    /\ tpc = "ready"

TitleIdle ==
    /\ content = <<>>
    /\ title = <<>>
    /\ tpc = "idle"

\* One call of extract_title_from_markdown.
ExtractTitle ==
    /\ tpc = "ready"
    /\ title' = extract_title_from_markdown(content)
    /\ tpc' = "done"
    /\ UNCHANGED content

-----------------------------------------------------------------------------
(* Reference resolver *)

\* A reference is <lead>https://arxiv.org/<shape>/<rest>: lead is whatever
\* precedes the scheme, shape the path segment ("other" when it is neither
\* abs nor pdf), rest the text after it.

RECURSIVE MatchId(_)
\* the group (?P<id>[\w.\-]+): the longest prefix of word characters, dots
\* and dashes (empty when the group cannot match)
MatchId(rest) ==
    IF rest # <<>> /\ SafeToken(Head(rest))
    THEN <<Head(rest)>> \o MatchId(Tail(rest))
    ELSE <<>>

\* arxiv_id.endswith(".pdf")
EndsWithPdf(id) == Len(id) >= 2 /\ id[Len(id) - 1] = "." /\ id[Len(id)] = "pdf"

\* parse_arxiv_url: the file name of the canonical PDF URL, <<>> for None
parse_arxiv_url(u) ==
    LET id == MatchId(u.rest)
    IN IF u.lead \notin {<<>>, <<" ">>} \/ id = <<>> THEN <<>>
       ELSE IF u.shape = "abs" THEN id \o <<".", "pdf">>
       ELSE IF u.shape = "pdf"
       THEN IF EndsWithPdf(id) THEN id ELSE id \o <<".", "pdf">>
       ELSE <<>>

\* extract_arxiv_id: the identifier, <<>> for None or the empty string.  The
\* link is matched as given, not stripped.
extract_arxiv_id(u) ==
    LET id == MatchId(u.rest)
    IN IF u.lead # <<>> \/ id = <<>> THEN <<>>
       ELSE IF u.shape = "abs" THEN id
       ELSE IF u.shape = "pdf"
       THEN IF EndsWithPdf(id) THEN SubSeq(id, 1, Len(id) - 2) ELSE id
       ELSE <<>>

\* os.path.splitext(os.path.basename(pdf_path))[0] for <safe_paper_id>.pdf:
\* a base name that is only ".pdf" has no extension to split off
PdfBaseName(safe) == IF safe = <<>> THEN <<".", "pdf">> ELSE safe

-----------------------------------------------------------------------------
(* Extraction orchestrator *)

NoDir == [owner |-> <<>>, loc |-> "none", runs |-> {}, files |-> {}]
SynthDir == [owner |-> <<>>, loc |-> "synth", runs |-> {}, files |-> {}]
NoMd == [name |-> <<>>, loc |-> "none", run |-> 0, text |-> <<>>]

\* An images directory is mineru_output/<owner>/auto/images ("name_auto"),
\* mineru_output/<owner>/images ("name"), mineru_output/auto/images ("auto"),
\* mineru_output/images ("root") or mineru_output/figs/images ("other").
ImagesAt(dirs, owner, loc) == {d \in dirs : d.owner = owner /\ d.loc = loc}

\* possible_paths, in order, then the first that exists
FirstImagesCandidate(dirs, pdf_name) ==
    LET c1 == ImagesAt(dirs, pdf_name, "name_auto")
        c2 == ImagesAt(dirs, pdf_name, "name")
        c3 == ImagesAt(dirs, <<>>, "auto")
        c4 == ImagesAt(dirs, <<>>, "root")
    IN IF c1 # {} THEN c1
       ELSE IF c2 # {} THEN c2
       ELSE IF c3 # {} THEN c3
       ELSE c4

\* The directories os.walk can report first: the root's own images, else
\* the images of any directory below it, a directory before its children;
\* the order of sibling directories is that of os.listdir, which is arbitrary.
WalkImages(dirs) ==
    IF ImagesAt(dirs, <<>>, "root") # {} THEN ImagesAt(dirs, <<>>, "root")
    ELSE {d \in dirs :
            ~(d.loc = "name_auto" /\ ImagesAt(dirs, d.owner, "name") # {})}

\* The images directories lines 145-165 can select; {} when none is found.
LocateImages(dirs, pdf_name) ==
    IF FirstImagesCandidate(dirs, pdf_name) # {}
    THEN FirstImagesCandidate(dirs, pdf_name)
    ELSE WalkImages(dirs)

\* A transcript is mineru_output/<name>/auto/<name>.md ("name_auto"),
\* mineru_output/<name>/<name>.md ("name"), mineru_output/auto/<name>.md
\* ("auto") or mineru_output/<name>.md ("root").
MdAt(mds, name, loc) == {m \in mds : m.name = name /\ m.loc = loc}

SetToSeq(S) ==
    CHOOSE f \in [1..Cardinality(S) -> S] :
        \A i, j \in 1..Cardinality(S) : i # j => f[i] # f[j]

SetToSeqs(S) ==
    {f \in [1..Cardinality(S) -> S] :
        \A i, j \in 1..Cardinality(S) : i # j => f[i] # f[j]}

\* The orders in which os.walk can list the .md files: the root's files,
\* then directory by directory, a directory's files before its children's.
WalkMdOrders(mds) ==
    {f \in SetToSeqs(mds) :
        \A i, j \in 1..Len(f) :
            i < j =>
              /\ f[j].loc = "root" => f[i].loc = "root"
              /\ ~(f[i].name = f[j].name /\ f[i].loc = "name_auto"
                   /\ f[j].loc = "name")}

\* possible_md_paths, the four candidates that exist and then the walk
MdSearchPath(mds, pdf_name, walk) ==
    LET cand(loc) ==
            IF MdAt(mds, pdf_name, loc) = {} THEN <<>>
            ELSE <<CHOOSE m \in MdAt(mds, pdf_name, loc) : TRUE>>
    IN cand("name_auto") \o cand("name") \o cand("auto") \o cand("root") \o walk

RECURSIVE FirstTitled(_)
\* The loop of lines 215-230: the first transcript whose text yields a title
\* (one that yields none runs into the print of line 226, whose exception
\* the handler of line 228 turns into `continue`)
FirstTitled(path) ==
    IF path = <<>> THEN NoMd
    ELSE IF Strip(extract_title_from_markdown(Head(path).text)) # <<>>
    THEN Head(path)
    ELSE FirstTitled(Tail(path))

\* extract_title_from_mineru_output, given the transcript the loop stopped at
TitleOf(md, pdf_name) ==
    IF md = NoMd THEN pdf_name
    ELSE sanitize_filename(Strip(extract_title_from_markdown(md.text)))

\* Lines 167-184: the title extract_images_with_mineru returns.
\* Without an images directory the PDF name is returned as the title.
OrchestratorTitle(found, md, pdf_name) ==
    IF found THEN TitleOf(md, pdf_name) ELSE pdf_name

\* Lines 510-515: the folder name
FolderName(t, pdf_name, safe_id) ==
    IF t = <<>> \/ t = pdf_name THEN safe_id ELSE t

\* What the external tool leaves in mineru_output: an images directory and a
\* transcript, each written or not.
WriteImages(dirs, out, pdf_name, r) ==
    IF out.loc = "none" THEN dirs
    ELSE LET owner == IF out.loc \in {"name_auto", "name"} THEN pdf_name ELSE <<>>
             old == ImagesAt(dirs, owner, out.loc)
         IN (dirs \ old)
            \cup {[owner |-> owner, loc |-> out.loc,
                   runs |-> {r} \cup UNION {d.runs : d \in old},
                   files |-> out.files \cup UNION {d.files : d \in old}]}

WriteMd(mds, out, pdf_name, r) ==
    IF out.loc = "none" THEN mds
    ELSE (mds \ MdAt(mds, pdf_name, out.loc))
         \cup {[name |-> pdf_name, loc |-> out.loc, run |-> r, text |-> out.text]}

-----------------------------------------------------------------------------
(* Image post-processor *)

MinImageBytes == 5000
ImageExtensions == {"png", "jpg", "jpeg", "gif", "svg"}

\* str.lower() of a file extension
LowerExt(e) == CASE e = "PNG" -> "png" [] e = "JPG" -> "jpg" [] OTHER -> e

\* image_file.lower().endswith(('.png', '.jpg', '.jpeg', '.gif', '.svg'))
HasImageExtension(f) == LowerExt(f.ext) \in ImageExtensions

\* The candidates that pass both filters.
PassesFilters(f) == HasImageExtension(f) /\ f.size >= MinImageBytes

\* A file of a bundle folder: <stem>.<ext>, or <stem>_enhanced.png.
Put(files, file) ==
    {g \in files : ~(g.stem = file.stem /\ g.enhanced = file.enhanced
                     /\ g.ext = file.ext)} \cup {file}

\* One iteration of the loop of copy_images_to_output (lines 433-456).
CopyOne(acc, f, cv2, fail) ==
    IF ~HasImageExtension(f) \/ f.size < MinImageBytes THEN acc
    ELSE LET e == enhance_image_quality(f.w, f.h, cv2, fail)
         IN CASE e.ret = "enhanced" ->
                   [count |-> acc.count + 1,
                    files |-> Put(acc.files,
                                  [stem |-> f.stem, enhanced |-> TRUE, ext |-> "png",
                                   kind |-> "image", raw |-> FALSE])]
              [] e.ret = "dst" ->
                   [count |-> acc.count + 1,
                    files |-> Put(acc.files,
                                  [stem |-> f.stem, enhanced |-> FALSE, ext |-> f.ext,
                                   kind |-> "image", raw |-> TRUE])]
              [] OTHER -> acc

RECURSIVE CopyLoop(_, _, _, _)
\* The loop over os.listdir(source_images_dir), in the order it lists them.
CopyLoop(acc, order, cv2, fails) ==
    IF order = <<>> THEN acc
    ELSE CopyLoop(CopyOne(acc, Head(order), cv2, fails[Head(order)]),
                  Tail(order), cv2, fails)

-----------------------------------------------------------------------------
(* process_arxiv_paper *)

MaxRuns == 2

Urls ==
    { [lead |-> <<>>, shape |-> "abs", rest |-> <<"_">>],
      [lead |-> <<>>, shape |-> "pdf", rest |-> <<"T", "-", "a", ".", "pdf">>],
      [lead |-> <<" ">>, shape |-> "abs", rest |-> <<"a">>],
      [lead |-> <<>>, shape |-> "pdf", rest |-> <<".", "pdf">>],
      [lead |-> <<>>, shape |-> "other", rest |-> <<"a">>] }

ImageA == [stem |-> <<"f1">>, ext |-> "png", size |-> 6000, w |-> 100, h |-> 100]
ImageB == [stem |-> <<"f1">>, ext |-> "JPG", size |-> 5000, w |-> 1000, h |-> 1000]
ImageC == [stem |-> <<"f2">>, ext |-> "png", size |-> 4999, w |-> 100, h |-> 100]
ImageD == [stem |-> <<"f3">>, ext |-> "txt", size |-> 6000, w |-> 100, h |-> 100]

ToolImages ==
    { [loc |-> "none", files |-> {}],
      [loc |-> "name_auto", files |-> {ImageA, ImageB, ImageC, ImageD}],
      [loc |-> "other", files |-> {ImageA}] }

TextHeading == << <<"#", " ", "T", "x9", "a">> >>
TextUnsafe == << <<"#", " ", "!", "!", "!", ".", ".", ".", "!", "!", "!", "!", "!">> >>
TextNoTitle == << <<"a">> >>

ToolMds ==
    { [loc |-> "none", text |-> <<>>],
      [loc |-> "name_auto", text |-> TextHeading],
      [loc |-> "name_auto", text |-> TextUnsafe],
      [loc |-> "name_auto", text |-> TextNoTitle] }

PipeFailSets == {{}, {"open"}, {"open", "copy"}}

PipeInit ==
    /\ pc = "idle"
    /\ run = 0
    /\ url = [lead |-> <<>>, shape |-> "other", rest |-> <<>>]
    /\ safe_paper_id = <<>>
    /\ outdir = FALSE
    /\ tmp_exists = FALSE
    /\ tmp_pdfs = {}
    /\ mo_images = {}
    /\ mo_mds = {}
    /\ tmp_synth = FALSE
    /\ images_dir = NoDir
    /\ paper_title = <<>>
    /\ copied_count = 0
    /\ bundles = << >>
    /\ result = "none"
    /\ events = {}
    /\ tool_md = NoMd
    /\ md_run = 0
    /\ bundles0 = << >>

PipeIdle ==
    /\ pc = "off"
    /\ run = 0
    /\ url = [lead |-> <<>>, shape |-> "other", rest |-> <<>>]
    /\ safe_paper_id = <<>>
    /\ outdir = FALSE
    /\ tmp_exists = FALSE
    /\ tmp_pdfs = {}
    /\ mo_images = {}
    /\ mo_mds = {}
    /\ tmp_synth = FALSE
    /\ images_dir = NoDir
    /\ paper_title = <<>>
    /\ copied_count = 0
    /\ bundles = << >>
    /\ result = "none"
    /\ events = {}
    /\ tool_md = NoMd
    /\ md_run = 0
    /\ bundles0 = << >>

fsvars == <<outdir, tmp_exists, tmp_pdfs, mo_images, mo_mds, tmp_synth, bundles>>
runvars == <<run, url, safe_paper_id, bundles0>>

\* The handler of line 540: anything raised ends the run with False.
Fail(ev) ==
    /\ result' = "false"
    /\ pc' = "done"
    /\ events' = events \cup {ev}

\* Lines 476-496: resolve the reference and make the directories.  A new
\* run starts its own history; the folders of earlier runs stay.
Resolve(u) ==
    /\ pc \in {"idle", "done"}
    /\ run < MaxRuns
    /\ run' = run + 1
    /\ url' = u
    /\ bundles' = [d \in DOMAIN bundles |-> {}]
    /\ bundles0' = [d \in DOMAIN bundles |-> {}]
    /\ images_dir' = NoDir
    /\ paper_title' = <<>>
    /\ copied_count' = 0
    /\ tool_md' = NoMd
    /\ md_run' = 0
    /\ UNCHANGED <<tmp_pdfs, mo_images, mo_mds, tmp_synth>>
    /\ IF parse_arxiv_url(u) = <<>>
       THEN /\ result' = "false"
            /\ pc' = "done"
            /\ events' = {"invalid_reference"}
            /\ safe_paper_id' = <<>>
            /\ UNCHANGED <<outdir, tmp_exists>>
       ELSE IF extract_arxiv_id(u) = <<>>
       THEN /\ result' = "false"
            /\ pc' = "done"
            /\ events' = {"no_paper_id"}
            /\ safe_paper_id' = <<>>
            /\ UNCHANGED <<outdir, tmp_exists>>
       ELSE /\ result' = "none"
            /\ pc' = "download"
            /\ events' = {"resolved", "tmp_made"}
            /\ safe_paper_id' = sanitize_filename(extract_arxiv_id(u))
            /\ outdir' = TRUE
            /\ tmp_exists' = TRUE

\* Lines 498-504: download_file
Download ==
    /\ pc = "download"
    /\ \E ok \in BOOLEAN :
         IF ok
         THEN /\ tmp_pdfs' = tmp_pdfs \cup {PdfBaseName(safe_paper_id)}
              /\ pc' = "tool"
              /\ events' = events \cup {"downloaded"}
              /\ UNCHANGED result
         ELSE /\ UNCHANGED tmp_pdfs
              /\ Fail("download_failed")
    /\ UNCHANGED <<runvars, outdir, tmp_exists, mo_images, mo_mds, tmp_synth,
                   bundles, images_dir, paper_title, copied_count, tool_md, md_run>>

\* Lines 109-139: the tool is not found, exits non-zero, or succeeds; when
\* it ran it has written what it wrote.  check is subprocess.run's check=.
RunToolChecked(check) ==
    /\ pc = "tool"
    /\ \E outcome \in {"ok", "missing", "nonzero"}, im \in ToolImages, md \in ToolMds :
         LET pdf_name == PdfBaseName(safe_paper_id)
         IN IF outcome = "missing"
            THEN /\ im.loc = "none" /\ md.loc = "none"
                 /\ UNCHANGED <<mo_images, mo_mds, tool_md>>
                 /\ Fail("tool_missing")
            ELSE /\ mo_images' = WriteImages(mo_images, im, pdf_name, run)
                 /\ mo_mds' = WriteMd(mo_mds, md, pdf_name, run)
                 /\ IF outcome = "nonzero" /\ check
                    THEN /\ Fail("tool_failed")
                         /\ UNCHANGED tool_md
                    ELSE /\ pc' = "locate"
                         /\ events' = events \cup
                              {IF outcome = "ok" THEN "tool_ok" ELSE "tool_failed"}
                         /\ tool_md' = IF md.loc = "none" THEN NoMd
                                       ELSE [name |-> pdf_name, loc |-> md.loc,
                                             run |-> run, text |-> md.text]
                         /\ UNCHANGED result
    /\ UNCHANGED <<runvars, outdir, tmp_exists, tmp_pdfs, tmp_synth, bundles,
                   images_dir, paper_title, copied_count, md_run>>

\* A mutant of RunTool: the exit status of the tool is not checked.
RunTool_Unchecked == RunToolChecked(FALSE)

RunTool == RunToolChecked(TRUE)

\* Lines 141-184 and 510-515: find the images directory, recover the title,
\* settle the folder name.
Locate ==
    /\ pc = "locate"
    /\ LET pdf_name == PdfBaseName(safe_paper_id)
           found == LocateImages(mo_images, pdf_name)
       IN \E walk \in WalkMdOrders(mo_mds) :
            LET md == FirstTitled(MdSearchPath(mo_mds, pdf_name, walk))
                t == OrchestratorTitle(found # {}, md, pdf_name)
            IN /\ IF found = {}
                  THEN /\ images_dir' = SynthDir
                       /\ tmp_synth' = TRUE
                       /\ md_run' = 0
                  ELSE /\ images_dir' \in found
                       /\ md_run' = md.run
                       /\ UNCHANGED tmp_synth
               /\ paper_title' = FolderName(t, pdf_name, safe_paper_id)
               /\ events' = events
                    \cup (IF found = {} THEN {"no_images_dir"} ELSE {})
                    \cup (IF mo_mds = {} THEN {"no_transcript"} ELSE {})
                    \cup (IF t = <<>> \/ t = pdf_name THEN {"no_title"} ELSE {"titled"})
    /\ pc' = "copy"
    /\ UNCHANGED <<runvars, outdir, tmp_exists, tmp_pdfs, mo_images, mo_mds,
                   bundles, copied_count, result, tool_md>>

\* Lines 517-519: copy_images_to_output
CopyImages ==
    /\ pc = "copy"
    /\ LET old == IF paper_title \in DOMAIN bundles THEN bundles[paper_title] ELSE {}
           hit == {f \in images_dir.files : PassesFilters(f)}
           none == [f \in images_dir.files \ hit |-> {}]
       IN \E order \in SetToSeqs(hit), cv2_available \in BOOLEAN :
          \E fails \in [hit -> PipeFailSets] :
            LET out == CopyLoop([count |-> 0, files |-> old],
                                order \o SetToSeq(images_dir.files \ hit),
                                cv2_available, fails @@ none)
            IN /\ copied_count' = out.count
               /\ bundles' = [d \in DOMAIN bundles \cup {paper_title} |->
                                IF d = paper_title THEN out.files ELSE bundles[d]]
               /\ events' = events
                    \cup (IF paper_title \in DOMAIN bundles
                          THEN {"bundle_reused"} ELSE {})
                    \cup (IF \E f \in hit :
                               TryEnhance(f.w, f.h, cv2_available, fails[f]).raised
                          THEN {"enhancement_failed"} ELSE {})
                    \cup (IF \E f \in hit : "copy" \in fails[f]
                               /\ TryEnhance(f.w, f.h, cv2_available, fails[f]).raised
                          THEN {"copy_failed"} ELSE {})
    /\ pc' = "stage"
    /\ UNCHANGED <<runvars, outdir, tmp_exists, tmp_pdfs, mo_images, mo_mds,
                   tmp_synth, images_dir, paper_title, result, tool_md, md_run>>

\* Lines 521-523: the PDF goes into the folder as <sanitized title>.pdf
StagePdf ==
    /\ pc = "stage"
    /\ bundles' = [bundles EXCEPT ![paper_title] =
                     Put(@, [stem |-> sanitize_filename(paper_title),
                             enhanced |-> FALSE, ext |-> "pdf",
                             kind |-> "pdf", raw |-> TRUE])]
    /\ pc' = "cleanup"
    /\ events' = events \cup {"staged"}
    /\ UNCHANGED <<runvars, outdir, tmp_exists, tmp_pdfs, mo_images, mo_mds,
                   tmp_synth, images_dir, paper_title, copied_count, result,
                   tool_md, md_run>>

\* A mutant of Cleanup: a failed rmtree reaches the handler of line 540.
Cleanup_Propagates ==
    /\ pc = "cleanup"
    /\ \E ok \in BOOLEAN :
         IF ok
         THEN /\ tmp_exists' = FALSE
              /\ tmp_pdfs' = {}
              /\ mo_images' = {}
              /\ mo_mds' = {}
              /\ tmp_synth' = FALSE
              /\ events' = events \cup {"cleaned"}
              /\ result' = "true"
         ELSE /\ UNCHANGED <<tmp_exists, tmp_pdfs, mo_images, mo_mds, tmp_synth>>
              /\ events' = events \cup {"cleanup_failed"}
              /\ result' = "false"
    /\ pc' = "done"
    /\ UNCHANGED <<runvars, outdir, bundles, images_dir, paper_title,
                   copied_count, tool_md, md_run>>

\* Lines 525-538: remove the workspace; a failure is logged and the run
\* still returns True.
Cleanup ==
    /\ pc = "cleanup"
    /\ \E ok \in BOOLEAN :
         IF ok
         THEN /\ tmp_exists' = FALSE
              /\ tmp_pdfs' = {}
              /\ mo_images' = {}
              /\ mo_mds' = {}
              /\ tmp_synth' = FALSE
              /\ events' = events \cup {"cleaned"}
         ELSE /\ UNCHANGED <<tmp_exists, tmp_pdfs, mo_images, mo_mds, tmp_synth>>
              /\ events' = events \cup {"cleanup_failed"}
    /\ result' = "true"
    /\ pc' = "done"
    /\ UNCHANGED <<runvars, outdir, bundles, images_dir, paper_title,
                   copied_count, tool_md, md_run>>

vars == <<tvars, evars, pvars>>

InitTitle == TitleInit /\ EnhanceIdle /\ PipeIdle
NextTitle == ExtractTitle /\ UNCHANGED <<evars, pvars>>
SpecTitle == InitTitle /\ [][NextTitle]_vars

InitEnhance == EnhanceInit /\ TitleIdle /\ PipeIdle
NextEnhance == Enhance /\ UNCHANGED <<tvars, pvars>>
SpecEnhance == InitEnhance /\ [][NextEnhance]_vars

Init == PipeInit /\ TitleIdle /\ EnhanceIdle
Next ==
    \/ (\E u \in Urls : Resolve(u)) /\ UNCHANGED <<tvars, evars>>
    \/ Download /\ UNCHANGED <<tvars, evars>>
    \/ RunTool /\ UNCHANGED <<tvars, evars>>
    \/ Locate /\ UNCHANGED <<tvars, evars>>
    \/ CopyImages /\ UNCHANGED <<tvars, evars>>
    \/ StagePdf /\ UNCHANGED <<tvars, evars>>
    \/ Cleanup /\ UNCHANGED <<tvars, evars>>
Spec == Init /\ [][Next]_vars

-----------------------------------------------------------------------------
(* Properties *)

Past(stage) ==
    CASE stage = "locate" -> pc \in {"copy", "stage", "cleanup", "done"}
                             /\ "tool_ok" \in events
      [] stage = "copy" -> pc \in {"stage", "cleanup", "done"} /\ "tool_ok" \in events
      [] OTHER -> FALSE

Pdfs(files) == {g \in files : g.kind = "pdf"}
Pictures(files) == {g \in files : g.kind = "image"}

\* C1: a run whose reference resolved, whose download succeeded and whose
\* tool invocation succeeded never returns False, whatever soft failures it
\* meets (no images directory, no transcript, no title, enhancement or its
\* fallback copy failing, the workspace not removable); when it ends it has
\* returned True and its PDF lies in the bundle folder.
C1_SoftFailuresNeverFail ==
    "tool_ok" \in events =>
        /\ result # "false"
        /\ pc = "done" =>
             /\ result = "true"
             /\ paper_title \in DOMAIN bundles
             /\ \E g \in Pdfs(bundles[paper_title]) :
                    g.stem = sanitize_filename(paper_title)

\* C1 witness: a finished run that met a missing transcript, a missing title,
\* a failed enhancement, a failed fallback copy and a failed cleanup.
C1_Witness ==
    /\ pc = "done" /\ result = "true"
    /\ {"tool_ok", "no_transcript", "no_title", "enhancement_failed",
        "copy_failed", "cleanup_failed"} \subseteq events

FatalEvents ==
    {"invalid_reference", "no_paper_id", "download_failed", "tool_missing",
     "tool_failed"}

\* C2: once a fatal condition has occurred (invalid reference, failed
\* download, tool missing, tool exit non-zero) the run is over and has
\* returned False; nothing after the failing stage has run (no download after
\* an invalid reference, no tool after a failed download, no image directory
\* selected, no title settled, no image copied, no PDF staged after a tool
\* failure) and the bundle folders are those the run started with.
C2_FatalErrorsAbort ==
    events \cap FatalEvents # {} =>
        /\ pc = "done" /\ result = "false"
        /\ bundles = bundles0
        /\ images_dir = NoDir /\ paper_title = <<>> /\ copied_count = 0
        /\ events \cap {"titled", "no_title", "no_images_dir", "no_transcript",
                        "enhancement_failed", "copy_failed", "staged", "cleaned",
                        "cleanup_failed"} = {}
        /\ events \cap {"invalid_reference", "no_paper_id"} # {} =>
               events \cap {"tmp_made", "downloaded", "download_failed"} = {}
        /\ "download_failed" \in events =>
               events \cap {"tool_ok", "tool_missing", "tool_failed"} = {}
        /\ events \cap {"tool_missing", "tool_failed"} # {} => "tool_ok" \notin events

\* C2 witness: a second run ended by a non-zero tool exit after the tool had
\* written an images directory, with the folder of the first run in place.
C2_Witness ==
    /\ pc = "done" /\ "tool_failed" \in events
    /\ mo_images # {} /\ DOMAIN bundles0 # {}

\* C3 (as claimed): a run that made the workspace leaves none behind when it
\* ends, in success or in a fatal failure, unless the removal itself failed.
C3_WorkspaceRemoved ==
    (pc = "done" /\ "tmp_made" \in events /\ "cleanup_failed" \notin events)
        => ~tmp_exists

\* C4 (as claimed): after a successful run into a folder that did not exist,
\* the folder holds exactly one PDF and exactly N image files, N the number
\* of candidates passing the extension and size filters, and
\* copy_images_to_output returned N.  Stated for the runs in which every
\* candidate produced a file (no fallback copy failed) and whose paper id is
\* not empty.
C4_BundleContents ==
    (pc = "done" /\ result = "true" /\ "bundle_reused" \notin events
     /\ "copy_failed" \notin events /\ safe_paper_id # <<>>) =>
        LET N == Cardinality({f \in images_dir.files : PassesFilters(f)})
        IN /\ Cardinality(Pdfs(bundles[paper_title])) = 1
           /\ Cardinality(Pictures(bundles[paper_title])) = N
           /\ copied_count = N

\* C5 (as claimed): the name settled for the bundle folder and the PDF is a
\* non-empty string over the sanitized alphabet.
C5_FolderNameNonEmpty ==
    Past("locate") =>
        /\ paper_title # <<>>
        /\ \A i \in 1..Len(paper_title) : SafeToken(paper_title[i])

\* C6 (as claimed): whenever a step of enhance_image_quality failed (open,
\* super-resolution, resampling, the enhancement sequence, save) the file
\* produced is the raw copy of the source at the destination path.
C6_AnyFailureRawCopy ==
    (epc = "done" /\ enh.failed # {} /\ "copy" \notin enh.failed)
        => enh.ret = "dst" /\ enh.raw

AbsorbedSteps == {"super_resolution", "sharpen", "smooth"}

\* C6 (amended): when importing or opening the image, the resampling upscale
\* (np unbound without cv2 included) or saving the PNG fails, the file
\* produced is the raw copy of the source at the destination path, unless
\* that copy fails too, in which case the call raises and produces nothing;
\* a failed super-resolution falls back to the resampling upscale and a
\* failure inside the enhancement sequence is absorbed, and when nothing else
\* fails the result is saved as the enhanced PNG.
C6_FallbackChain ==
    epc = "done" =>
        /\ (enh.failed \ AbsorbedSteps # {} /\ "copy" \notin enh.failed)
              => enh.ret = "dst" /\ enh.raw /\ enh.w = img.w /\ enh.h = img.h
        /\ "copy" \in enh.failed
              => enh.ret = "raise" /\ enh.failed \ (AbsorbedSteps \cup {"copy"}) # {}
        /\ (enh.failed # {} /\ enh.failed \subseteq AbsorbedSteps)
              => enh.ret = "enhanced" /\ ~enh.raw
        /\ ("super_resolution" \in enh.failed /\ enh.ret = "enhanced")
              => \E i \in 1..Len(enh.ops) : enh.ops[i] = "lanczos"

\* C6 witness: cv2 absent, a picture under one megapixel, nothing else
\* failing: the resampling step throws and the raw copy is returned.
C6_Witness ==
    /\ epc = "done" /\ ~img.has_cv2 /\ img.fail = {}
    /\ enh.failed = {"numpy_unbound"} /\ enh.ret = "dst" /\ enh.raw

\* C7 (as claimed): without cv2, a picture under 1,000,000 pixels is upscaled
\* by resampling with scale = min(3, floor(sqrt(1,500,000 / (w*h)))), an
\* integer in 1..3, to (w*scale, h*scale), and saved as the enhanced PNG.
C7_Tier2Resampling ==
    (epc = "done" /\ ~img.has_cv2 /\ img.fail = {}
     /\ img.w * img.h < UpscaleBelowPixels) =>
        LET scale == ScaleFactor(LanczosCap, LanczosBudget, img.w * img.h)
        IN /\ scale \in 1..LanczosCap
           /\ enh.ret = "enhanced" /\ ~enh.raw
           /\ enh.w = img.w * scale /\ enh.h = img.h * scale

ReachesBoldScan(lines) == HeadingScan(lines) = <<>> /\ PlainScan(lines) = <<>>

RECURSIVE FirstSpan(_, _)
\* the first bold span of length strictly between 20 and 200 that contains
\* none of the words of stoplist
FirstSpan(ms, stoplist) ==
    IF ms = <<>> THEN <<>>
    ELSE IF /\ StrLen(Head(ms)) > 20 /\ StrLen(Head(ms)) < 200
            /\ \A skip \in stoplist : ~Contains(Head(ms), skip)
    THEN Head(ms)
    ELSE FirstSpan(Tail(ms), stoplist)

\* C8 (as claimed): when the third heuristic is reached, the title is the
\* first bold span of the first 2000 characters, of length between 20 and
\* 200, that contains none of abstract, introduction, content, table, figure.
C8_BoldUsesHeadingStoplist ==
    (tpc = "done" /\ ReachesBoldScan(content)) =>
        /\ title = FirstSpan(BoldMatches(Truncate(content, 2000)),
                             {"abstract", "introduction", "content", "table", "figure"})
        /\ \A skip \in {"abstract", "introduction", "content", "table", "figure"} :
               ~Contains(title, skip)

\* C8 (amended): when the third heuristic is reached, the title is the first
\* bold span of the first 2000 characters, of length strictly between 20 and
\* 200, that contains none of abstract, figure, table (case-insensitive
\* substring); a span containing introduction or content is not excluded.
C8_BoldStoplist ==
    (tpc = "done" /\ ReachesBoldScan(content)) =>
        /\ title = FirstSpan(BoldMatches(Truncate(content, 2000)),
                             {"abstract", "figure", "table"})
        /\ \A skip \in {"abstract", "figure", "table"} : ~Contains(title, skip)

\* C8 witness: the third heuristic returned a bold span that contains the
\* word introduction, after skipping one that contains abstract.
C8_Witness ==
    /\ tpc = "done" /\ ReachesBoldScan(content)
    /\ Contains(title, "introduction")
    /\ Len(content) = 2
    /\ BoldMatches(content)[1] # title

\* C9 (as claimed): when the tool succeeded and wrote a transcript whose text
\* yields a title, the folder is named by that sanitized title, wherever the
\* images are and also when there are none.  Stated for the runs whose
\* paper id is not empty.
C9_TitleIndependentOfImages ==
    (Past("locate") /\ tool_md # NoMd /\ safe_paper_id # <<>>
     /\ sanitize_filename(Strip(extract_title_from_markdown(tool_md.text))) # <<>>)
        => paper_title =
             sanitize_filename(Strip(extract_title_from_markdown(tool_md.text)))

\* C10 (as claimed): the images directory a run selected and the transcript
\* its title came from were written by the tool in that same run.  Stated
\* for the runs whose paper id is not empty.
C10_NoContamination ==
    (Past("locate") /\ safe_paper_id # <<>>)
        => images_dir.runs \subseteq {run} /\ md_run \in {0, run}

=============================================================================
